---- MODULE Spec2Model ----
(***************************************************************************)
(* State-machine model of web_scraper.py: WebScraper.scrape_products and   *)
(* the helpers it calls (fetch_page, _parse_product_listing,               *)
(* _get_product_details).  The web site is the environment: every fetch    *)
(* draws its outcome (no page, or a page of some shape) from a bounded set.*)
(* Texts are sequences of one-character strings so that strip(), replace() *)
(* and float() are computed, not assumed.  Numbers produced by float() are *)
(* kept in hundredths (19.99 is 1999).                                     *)
(***************************************************************************)
EXTENDS Integers, Sequences, FiniteSets, TLC

VARIABLES
    pc,              \* where the control flow of scrape_products stands
    callsLeft,       \* scrape_products calls the caller will still make
    category,        \* argument of the running call
    max_pages,       \* argument of the running call
    page,            \* scrape_products: page
    products,        \* the list _parse_product_listing builds and returns
    product_cards,   \* _parse_product_listing: product_cards
    idx,             \* _parse_product_listing: position of the for loop, from 1
    cur,             \* _parse_product_listing: name, price, ..., full_url of the card
    detail_soup,     \* _get_product_details: soup (the fetched detail page)
    product_details, \* _parse_product_listing: product_details
    scraped_data,    \* self.scraped_data
    requests,        \* history: the URLs the running call passed to fetch_page
    responses,       \* history: per request, whether a page came back
    parsed,          \* history: the Products the running call constructed
    atStart,         \* history: scraped_data when the running call began
    validSeen,       \* history: well-formed cards on the pages the call fetched
    barePage,        \* history: a fetched page had cards, none well-formed
    lastCards,       \* history: number of cards on the last page fetched
    served           \* history: number of cards the site has served

vars == <<pc, callsLeft, category, max_pages, page, products, product_cards, idx,
          cur, detail_soup, product_details, scraped_data, requests, responses,
          parsed, atStart, validSeen, barePage, lastCards, served>>

\* ---------------------------------------------------------------- bounds
MaxPagesBound == 2      \* max_pages is drawn from 0..MaxPagesBound
MaxCatalog == 2         \* cards the site serves in total
MaxCalls == 2           \* calls on one scraper object in the reuse specification

\* ---------------------------------------------------------------- constants
BASE_URL == "https://scrape-test-site.vercel.app"
Categories == {"all", "books"}

\* ---------------------------------------------------------------- Optional
None == <<>>
Some(x) == <<x>>

\* ---------------------------------------------------------------- text
IsSpace(c) == c = " "

RECURSIVE LStrip(_)
LStrip(s) == IF s # <<>> /\ IsSpace(Head(s)) THEN LStrip(Tail(s)) ELSE s

RECURSIVE RStrip(_)
RStrip(s) ==
    IF s # <<>> /\ IsSpace(s[Len(s)]) THEN RStrip(SubSeq(s, 1, Len(s) - 1)) ELSE s

\* str.strip()
Strip(s) == RStrip(LStrip(s))

\* str.replace('$', '')
RemoveDollar(s) == SelectSeq(s, LAMBDA c : c # "$")

LowerChar(c) ==
    CASE c = "I" -> "i"
      [] c = "S" -> "s"
      [] c = "O" -> "o"
      [] c = "B" -> "b"
      [] c = "W" -> "w"
      [] OTHER -> c
\* str.lower()
RECURSIVE Lower(_)
Lower(s) == IF s = <<>> THEN <<>> ELSE <<LowerChar(Head(s))>> \o Lower(Tail(s))

\* needle in haystack
Contains(hay, needle) ==
    \E i \in 1..(Len(hay) - Len(needle) + 1) :
        SubSeq(hay, i, i + Len(needle) - 1) = needle

Digits == {"0", "1", "2", "3", "4", "5", "6", "7", "8", "9"}
DigitVal(c) ==
    CASE c = "0" -> 0 [] c = "1" -> 1 [] c = "2" -> 2 [] c = "3" -> 3
      [] c = "4" -> 4 [] c = "5" -> 5 [] c = "6" -> 6 [] c = "7" -> 7
      [] c = "8" -> 8 [] c = "9" -> 9

RECURSIVE IntVal(_)
IntVal(ds) ==
    IF ds = <<>> THEN 0 ELSE IntVal(SubSeq(ds, 1, Len(ds) - 1)) * 10 + DigitVal(ds[Len(ds)])

AllDigits(ds) == \A i \in 1..Len(ds) : ds[i] \in Digits

\* hundredths denoted by the digits after the point (at most two are kept)
FracVal(ds) ==
    CASE Len(ds) = 0 -> 0
      [] Len(ds) = 1 -> DigitVal(ds[1]) * 10
      [] OTHER -> DigitVal(ds[1]) * 10 + DigitVal(ds[2])

\* the unsigned decimal body of a float literal: digits, at most one point,
\* at least one digit
UnsignedOf(s) ==
    LET dots == {i \in 1..Len(s) : s[i] = "."}
    IN  IF dots = {}
        THEN [ok |-> s # <<>> /\ AllDigits(s), val |-> IF s # <<>> /\ AllDigits(s) THEN IntVal(s) * 100 ELSE 0]
        ELSE LET d == CHOOSE i \in dots : TRUE
                 ip == SubSeq(s, 1, d - 1)
                 fp == SubSeq(s, d + 1, Len(s))
                 good == Cardinality(dots) = 1 /\ AllDigits(ip) /\ AllDigits(fp)
                         /\ Len(ip) + Len(fp) > 0
             IN  [ok |-> good, val |-> IF good THEN IntVal(ip) * 100 + FracVal(fp) ELSE 0]

\* float(s): surrounding whitespace is ignored, an optional sign, then the
\* decimal body; ok = FALSE stands for ValueError
FloatOf(s) ==
    LET t == Strip(s)
    IN  IF t # <<>> /\ Head(t) = "-"
        THEN LET u == UnsignedOf(Tail(t)) IN [ok |-> u.ok, val |-> 0 - u.val]
        ELSE IF t # <<>> /\ Head(t) = "+"
        THEN UnsignedOf(Tail(t))
        ELSE UnsignedOf(t)

\* ---------------------------------------------------------------- the site
\* what select_one(...) gives for a text element: no match, or its .text
Missing == [present |-> FALSE, text |-> <<>>]
El(t) == [present |-> TRUE, text |-> t]

\* what select_one(...)[attr] reads: no element, an element without the
\* attribute, or the attribute's value
NoElem == [present |-> FALSE, has |-> FALSE, value |-> <<>>]
NoAttr == [present |-> TRUE, has |-> FALSE, value |-> <<>>]
At(v) == [present |-> TRUE, has |-> TRUE, value |-> v]

Widget ==
    [name |-> El(<<" ", "W", " ">>),
     price |-> El(<<"$", "1", "9", ".", "9", "9">>),
     description |-> El(<<"d">>),
     rating |-> At(<<"4", ".", "5">>),
     link |-> At(<<"/", "w">>)]

Gadget ==
    [name |-> El(<<"G">>),
     price |-> El(<<" ", "$", "7", " ">>),
     description |-> El(<<>>),
     rating |-> At(<<"3">>),
     link |-> At(<<"/", "g">>)]

\* the product cards a listing page is made of
Cards ==
    { Widget, Gadget,
      [Widget EXCEPT !.name = Missing],
      [Widget EXCEPT !.name = El(<<" ">>)],
      [Widget EXCEPT !.price = Missing],
      [Widget EXCEPT !.price = El(<<"$">>)],
      [Widget EXCEPT !.price = El(<<"$", "-", "5">>)],
      [Widget EXCEPT !.description = Missing],
      [Widget EXCEPT !.rating = NoElem],
      [Widget EXCEPT !.rating = NoAttr],
      [Widget EXCEPT !.rating = At(<<"x">>)],
      [Widget EXCEPT !.link = NoElem],
      [Widget EXCEPT !.link = NoAttr] }

RECURSIVE SeqsUpTo(_, _)
SeqsUpTo(S, n) ==
    IF n = 0 THEN {<<>>}
    ELSE LET shorter == SeqsUpTo(S, n - 1)
         IN  shorter \cup {Append(s, x) : s \in {t \in shorter : Len(t) = n - 1}, x \in S}

\* soup.select('.product-card') of the listing pages the site can serve
ListingPages == SeqsUpTo(Cards, MaxCatalog)

\* what fetch_page returns for a product's own page
Absent == [ok |-> FALSE, breadcrumb |-> Missing, stock |-> Missing]
DetailPages ==
    { [ok |-> TRUE, breadcrumb |-> b, stock |-> s] :
        b \in {Missing, El(<<" ", "B", " ">>)},
        s \in {Missing,
               El(<<"I", "n", " ", "S", "t", "o", "c", "k">>),
               El(<<"O", "u", "t", " ", "o", "f", " ", "s", "t", "o", "c", "k">>)} }

\* ---------------------------------------------------------------- URLs
\* line 52: the listing URL of a page
ListingUrl(cat, p) ==
    IF cat # "all"
    THEN [base |-> BASE_URL, path |-> <<"products", cat>>, query |-> Some(p)]
    ELSE [base |-> BASE_URL, path |-> <<"products">>, query |-> Some(p)]

\* urljoin(self.base_url, relative_url) for a site-absolute path
UrlJoin(base, rel) == [base |-> base, path |-> rel, query |-> None]

IsListingUrl(u) == u.query # None

\* ---------------------------------------------------------------- parsing
NoFields == [name |-> <<>>, price |-> 0, description |-> <<>>, rating |-> 0,
             url |-> UrlJoin(BASE_URL, <<>>)]

\* the exceptions the except clause of _parse_product_listing catches
Caught(exc) == exc \in {"AttributeError", "ValueError"}

\* line 75: the text handed to float() for the price
PriceStr(card) == RemoveDollar(Strip(card.price.text))

\* float() accepting a price without a numeric body
FirstExceptionPriceUnchecked(card) ==
    CASE ~card.name.present -> "AttributeError"
      [] ~card.price.present -> "AttributeError"
      [] ~card.description.present -> "AttributeError"
      [] ~card.rating.present -> "TypeError"
      [] ~card.rating.has -> "KeyError"
      [] ~FloatOf(card.rating.value).ok -> "ValueError"
      [] ~card.link.present -> "TypeError"
      [] ~card.link.has -> "KeyError"
      [] OTHER -> "none"

\* lines 74-80: the first exception the statements raise on a card, in
\* their order: .text of no element is an AttributeError, float() of a
\* non-number a ValueError, [attr] of no element a TypeError and of an
\* element without the attribute a KeyError
FirstException(card) ==
    CASE ~card.name.present -> "AttributeError"
      [] ~card.price.present -> "AttributeError"
      [] ~FloatOf(PriceStr(card)).ok -> "ValueError"
      [] ~card.description.present -> "AttributeError"
      [] ~card.rating.present -> "TypeError"
      [] ~card.rating.has -> "KeyError"
      [] ~FloatOf(card.rating.value).ok -> "ValueError"
      [] ~card.link.present -> "TypeError"
      [] ~card.link.has -> "KeyError"
      [] OTHER -> "none"

\* lines 74-81: the listing fields of one card, or the exception raised
ListingFields(card) ==
    [exc |-> FirstException(card),
     fields |-> IF FirstException(card) # "none" THEN NoFields
                ELSE [name |-> Strip(card.name.text),
                      price |-> FloatOf(PriceStr(card)).val,
                      description |-> Strip(card.description.text),
                      rating |-> FloatOf(card.rating.value).val,
                      url |-> UrlJoin(BASE_URL, card.link.value)]]

EmptyDict == [category |-> None, in_stock |-> None]

InStockText == <<"i", "n", " ", "s", "t", "o", "c", "k">>

\* lines 103-118: the dict _get_product_details returns for a fetched page
DetailsOf(page_) ==
    IF ~page_.ok THEN EmptyDict
    ELSE IF ~page_.breadcrumb.present \/ ~page_.stock.present THEN EmptyDict
    ELSE [category |-> Some(Strip(page_.breadcrumb.text)),
          in_stock |-> Some(Contains(Lower(Strip(page_.stock.text)), InStockText))]

\* Product(...) with in_stock defaulting to False
ProductDefaultOutOfStock(f, d) ==
    [name |-> f.name, price |-> f.price, description |-> f.description,
     rating |-> f.rating, url |-> f.url,
     category |-> d.category,
     in_stock |-> IF d.in_stock = None THEN FALSE ELSE d.in_stock[1]]

\* lines 86-94: Product(...) with the dataclass defaults
Product(f, d) ==
    [name |-> f.name, price |-> f.price, description |-> f.description,
     rating |-> f.rating, url |-> f.url,
     category |-> d.category,
     in_stock |-> IF d.in_stock = None THEN TRUE ELSE d.in_stock[1]]

\* a card all of whose required fields are there and convert
WellFormed(card) ==
    /\ card.name.present /\ card.price.present /\ card.description.present
    /\ card.rating.present /\ card.rating.has
    /\ card.link.present /\ card.link.has
    /\ FloatOf(PriceStr(card)).ok
    /\ FloatOf(card.rating.value).ok

WellFormedCards == {c \in Cards : WellFormed(c)}

CountWellFormed(cards) == Cardinality({i \in 1..Len(cards) : cards[i] \in WellFormedCards})

\* ListingFields and DetailsOf, tabulated over what the site can serve
FieldsOfCard == [c \in Cards |-> ListingFields(c)]
DetailsOfPage == [d \in DetailPages \cup {Absent} |-> DetailsOf(d)]

\* ---------------------------------------------------------------- state machine
locals == <<product_cards, idx, cur, detail_soup, product_details>>
history == <<requests, responses, parsed, atStart, validSeen, barePage, lastCards>>

\* lines 31-35: a fresh scraper, no call made yet
InitWith(n) ==
    /\ pc = "idle"
    /\ callsLeft = n
    /\ category = "all"
    /\ max_pages = 0
    /\ page = 0
    /\ products = <<>>
    /\ product_cards = <<>>
    /\ idx = 0
    /\ cur = NoFields
    /\ detail_soup = Absent
    /\ product_details = EmptyDict
    /\ scraped_data = <<>>
    /\ requests = <<>>
    /\ responses = <<>>
    /\ parsed = <<>>
    /\ atStart = <<>>
    /\ validSeen = 0
    /\ barePage = FALSE
    /\ lastCards = 0
    /\ served = 0

\* main(): one scrape_products call on a new WebScraper
Init == InitWith(1)

\* a caller that calls scrape_products again on the same object
InitReuse == InitWith(MaxCalls)

\* lines 48-50: the call, up to the first test of the loop
ScrapeProducts ==
    /\ pc \in {"idle", "done"}
    /\ callsLeft > 0
    /\ callsLeft' = callsLeft - 1
    /\ category' \in Categories
    /\ max_pages' \in 0..MaxPagesBound
    /\ page' = 1
    /\ pc' = "loop"
    /\ requests' = <<>>
    /\ responses' = <<>>
    /\ parsed' = <<>>
    /\ atStart' = scraped_data
    /\ validSeen' = 0
    /\ barePage' = FALSE
    /\ lastCards' = 0
    /\ UNCHANGED <<products, locals, scraped_data, served>>

\* the loop running one page past the ceiling
LoopTestOneMore == page <= max_pages + 1

\* line 51: while page <= max_pages
LoopTest == page <= max_pages

\* line 51: the loop test fails, the call returns
LoopExit ==
    /\ pc = "loop"
    /\ ~LoopTest
    /\ pc' = "done"
    /\ UNCHANGED <<callsLeft, category, max_pages, page, products, locals,
                   scraped_data, history, served>>

\* a failed listing page being tried again
FetchListingFailRetry ==
    /\ pc = "loop"
    /\ LoopTest
    /\ requests' = Append(requests, ListingUrl(category, page))
    /\ responses' = Append(responses, FALSE)
    /\ pc' = "loop"
    /\ UNCHANGED <<callsLeft, category, max_pages, page, products, locals,
                   scraped_data, parsed, atStart, validSeen, barePage, lastCards,
                   served>>

\* lines 51-57 with fetch_page returning None
FetchListingFail ==
    /\ pc = "loop"
    /\ LoopTest
    /\ requests' = Append(requests, ListingUrl(category, page))
    /\ responses' = Append(responses, FALSE)
    /\ pc' = "done"
    /\ UNCHANGED <<callsLeft, category, max_pages, page, products, locals,
                   scraped_data, parsed, atStart, validSeen, barePage, lastCards,
                   served>>

\* lines 51-59 and 69-70 with fetch_page returning a listing page
FetchListingOk ==
    /\ pc = "loop"
    /\ LoopTest
    /\ requests' = Append(requests, ListingUrl(category, page))
    /\ responses' = Append(responses, TRUE)
    /\ product_cards' \in {doc \in ListingPages : Len(doc) <= MaxCatalog - served}
    /\ idx' = 1
    /\ products' = <<>>
    /\ pc' = "cards"
    /\ validSeen' = validSeen + CountWellFormed(product_cards')
    /\ barePage' = (barePage \/ (product_cards' # <<>> /\ CountWellFormed(product_cards') = 0))
    /\ lastCards' = Len(product_cards')
    /\ served' = served + Len(product_cards')
    /\ UNCHANGED <<callsLeft, category, max_pages, page, cur, detail_soup,
                   product_details, scraped_data, parsed, atStart>>

\* lines 72-81 and 95-97: the listing fields of the next card
ParseCard ==
    /\ pc = "cards"
    /\ idx <= Len(product_cards)
    /\ LET r == FieldsOfCard[product_cards[idx]]
       IN  IF r.exc = "none"
           THEN /\ cur' = r.fields
                /\ pc' = "details"
                /\ idx' = idx
           ELSE IF Caught(r.exc)
           THEN /\ idx' = idx + 1
                /\ UNCHANGED <<cur, pc>>
           ELSE /\ pc' = "raised"
                /\ UNCHANGED <<cur, idx>>
    /\ UNCHANGED <<callsLeft, category, max_pages, page, products, product_cards,
                   detail_soup, product_details, scraped_data, history, served>>

\* lines 84 and 101-118: the detail page is fetched and read
GetProductDetails ==
    /\ pc = "details"
    /\ requests' = Append(requests, cur.url)
    /\ detail_soup' \in DetailPages \cup {Absent}
    /\ responses' = Append(responses, detail_soup'.ok)
    /\ product_details' = DetailsOfPage[detail_soup']
    /\ pc' = "append"
    /\ UNCHANGED <<callsLeft, category, max_pages, page, products, product_cards,
                   idx, cur, scraped_data, parsed, atStart, validSeen, barePage,
                   lastCards, served>>

\* lines 86-94: the Product is built and appended
AppendProduct ==
    /\ pc = "append"
    /\ products' = Append(products, Product(cur, product_details))
    /\ parsed' = Append(parsed, Product(cur, product_details))
    /\ idx' = idx + 1
    /\ pc' = "cards"
    /\ UNCHANGED <<callsLeft, category, max_pages, page, product_cards, cur,
                   detail_soup, product_details, scraped_data, requests, responses,
                   atStart, validSeen, barePage, lastCards, served>>

\* scraped_data assigned, not extended
ReturnProductsReplacing ==
    /\ pc = "cards"
    /\ idx > Len(product_cards)
    /\ IF products = <<>>
       THEN /\ pc' = "done"
            /\ UNCHANGED <<scraped_data, page>>
       ELSE /\ scraped_data' = products
            /\ page' = page + 1
            /\ pc' = "loop"
    /\ product_cards' = <<>>
    /\ idx' = 0
    /\ cur' = NoFields
    /\ detail_soup' = Absent
    /\ product_details' = EmptyDict
    /\ UNCHANGED <<callsLeft, category, max_pages, products, history, served>>

\* the loop going on after a page without records
ReturnProductsNoBreak ==
    /\ pc = "cards"
    /\ idx > Len(product_cards)
    /\ scraped_data' = scraped_data \o products
    /\ page' = page + 1
    /\ pc' = "loop"
    /\ product_cards' = <<>>
    /\ idx' = 0
    /\ cur' = NoFields
    /\ detail_soup' = Absent
    /\ product_details' = EmptyDict
    /\ UNCHANGED <<callsLeft, category, max_pages, products, history, served>>

\* lines 99 and 60-65: the listing is parsed; stop on an empty list, else
\* extend scraped_data and go to the next page
ReturnProducts ==
    /\ pc = "cards"
    /\ idx > Len(product_cards)
    /\ IF products = <<>>
       THEN /\ pc' = "done"
            /\ UNCHANGED <<scraped_data, page>>
       ELSE /\ scraped_data' = scraped_data \o products
            /\ page' = page + 1
            /\ pc' = "loop"
    /\ product_cards' = <<>>
    /\ idx' = 0
    /\ cur' = NoFields
    /\ detail_soup' = Absent
    /\ product_details' = EmptyDict
    /\ UNCHANGED <<callsLeft, category, max_pages, products, history, served>>

Next ==
    \/ ScrapeProducts
    \/ LoopExit
    \/ FetchListingFail
    \/ FetchListingOk
    \/ ParseCard
    \/ GetProductDetails
    \/ AppendProduct
    \/ ReturnProducts

Spec == Init /\ [][Next]_vars

\* the interpreter always takes the next step of a running call
FairSpec == Init /\ [][Next]_vars /\ WF_vars(Next)

SpecReuse == InitReuse /\ [][Next]_vars

\* ---------------------------------------------------------------- properties
Last(s) == s[Len(s)]

\* the call has ended, by returning or by an exception leaving it
Stopped == pc \in {"done", "raised"}
InCall == pc \in {"loop", "cards", "details", "append"}

ListingRequests == SelectSeq(requests, IsListingUrl)
DetailRequestCount == Len(requests) - Len(ListingRequests)
AllFetchesOk == \A i \in 1..Len(responses) : responses[i]

\* C1: the listing pages a call has fetched are pages 1, 2, 3, ... in this
\* order, never more than max_pages of them, and a running call always comes
\* to a stop, whatever the fetches return.
ListingFetchesInOrder ==
    /\ Len(ListingRequests) <= max_pages
    /\ \A i \in 1..Len(ListingRequests) : ListingRequests[i] = ListingUrl(category, i)
C1_ScrapeStopsWithinMaxPages == []ListingFetchesInOrder /\ (InCall ~> Stopped)
\* the page ceiling ends a call that fetched max_pages pages
C1_CeilingReached ==
    pc = "done" /\ max_pages = 2 /\ Len(ListingRequests) = 2 /\ page = 3

\* C2: a listing fetch that returns no page is the last request of the call,
\* ends it at once with scraped_data holding the records of the earlier pages,
\* and no listing URL is requested twice.
C2_AbsentListingStops ==
    /\ \A i \in 1..Len(requests) :
          (IsListingUrl(requests[i]) /\ ~responses[i])
              => /\ i = Len(requests)
                 /\ pc = "done"
                 /\ scraped_data = parsed
                 /\ Len(ListingRequests) = page
    /\ \A i, j \in 1..Len(ListingRequests) :
          i # j => ListingRequests[i] # ListingRequests[j]
\* page 2 fails to load after page 1 gave a record
C2_SecondPageAbsent ==
    /\ pc = "done" /\ page = 2 /\ Len(scraped_data) >= 1
    /\ requests # <<>> /\ IsListingUrl(Last(requests)) /\ ~Last(responses)

\* C3: on a site where every fetch succeeds, pages 1..k have a well-formed
\* card each and page k+1 <= max_pages has no cards, the call stops at the
\* empty page k+1 after k+1 listing fetches, one detail fetch per well-formed
\* card and with one record per well-formed card.  A stopped call whose
\* fetches so far fit such a site (an empty page was reached, or there was
\* still room for one below max_pages) must therefore have stopped that way.
FitsExhaustibleSite ==
    /\ AllFetchesOk
    /\ ~barePage
    /\ \/ Len(ListingRequests) >= 1 /\ lastCards = 0
       \/ Len(ListingRequests) < max_pages
C3_StopsAtEmptyPage ==
    (Stopped /\ FitsExhaustibleSite)
        => /\ pc = "done"
           /\ lastCards = 0
           /\ Len(ListingRequests) = page
           /\ page <= max_pages
           /\ DetailRequestCount = validSeen
           /\ Len(scraped_data) = validSeen

\* C4: when the parsing of a listing page ends, it has returned one entry per
\* well-formed card, in document order, whatever malformed cards lie between.
ListingPart(p) ==
    [name |-> p.name, price |-> p.price, description |-> p.description,
     rating |-> p.rating, url |-> p.url]
WellFormedOnly(cards) == SelectSeq(cards, LAMBDA c : c \in WellFormedCards)
ParseEnded == (pc = "cards" /\ idx > Len(product_cards)) \/ pc = "raised"
C4_OneEntryPerWellFormedCard ==
    ParseEnded
        => /\ pc # "raised"
           /\ Len(products) = Len(WellFormedOnly(product_cards))
           /\ \A i \in 1..Len(products) :
                 ListingPart(products[i]) = FieldsOfCard[WellFormedOnly(product_cards)[i]].fields

\* C5: no exception leaves scrape_products, and a call that returns below the
\* page ceiling does so after an absent listing page or a page without records.
C5_NoErrorIsFatal ==
    /\ pc # "raised"
    /\ (pc = "done" /\ page <= max_pages)
          => \/ (requests # <<>> /\ IsListingUrl(Last(requests)) /\ ~Last(responses))
             \/ products = <<>>

\* C6: the record built from a fetched detail page has the breadcrumb's
\* category exactly when the page has a breadcrumb, and its in_stock follows
\* the stock-status text whenever the page has one, each regardless of the other.
C6_EnrichmentFieldsIndependent ==
    (pc \in {"cards", "raised"} /\ products # <<>> /\ detail_soup.ok)
        => LET r == Last(products)
               b == detail_soup.breadcrumb
               st == detail_soup.stock
           IN  /\ b.present => r.category = Some(Strip(b.text))
               /\ ~b.present => r.category = None
               /\ st.present => r.in_stock = Contains(Lower(Strip(st.text)), InStockText)

\* C7: when the detail fetch gave no page or a page without stock status, the
\* record is still appended, with in_stock = TRUE (and no category if there
\* was no page), parsing goes on with the next card, and a page that gave
\* records is followed by the next page.
SilentEnrichment == ~detail_soup.ok \/ ~detail_soup.stock.present
C7_SilentEnrichmentKeepsRecord ==
    [][ /\ (pc = "append" /\ SilentEnrichment)
            => /\ Len(products') = Len(products) + 1
               /\ SubSeq(products', 1, Len(products)) = products
               /\ ListingPart(Last(products')) = cur
               /\ Last(products').in_stock = TRUE
               /\ (~detail_soup.ok => Last(products').category = None)
               /\ pc' = "cards"
               /\ idx' = idx + 1
        /\ (pc = "cards" /\ idx > Len(product_cards) /\ products # <<>>)
            => /\ pc' = "loop"
               /\ page' = page + 1
               /\ scraped_data' = scraped_data \o products ]_vars
\* page 1 was kept although a detail fetch on it failed
C7_RecordKeptAfterFailedDetail ==
    /\ pc = "loop" /\ page = 2 /\ Len(scraped_data) >= 1
    /\ \E i \in 1..Len(requests) : ~IsListingUrl(requests[i]) /\ ~responses[i]

\* C8 as stated: every record of scraped_data has a non-empty name and a
\* non-negative price.
C8_NameNonEmptyPriceNonNegative ==
    \A i \in 1..Len(scraped_data) :
        scraped_data[i].name # <<>> /\ scraped_data[i].price >= 0

\* n is t without its leading and trailing spaces
IsTrimOf(n, t) ==
    /\ n = <<>> \/ (n[1] # " " /\ n[Len(n)] # " ")
    /\ \E a, b \in 0..Len(t) :
          /\ a + b <= Len(t)
          /\ \A k \in 1..a : t[k] = " "
          /\ \A k \in (Len(t) - b + 1)..Len(t) : t[k] = " "
          /\ n = SubSeq(t, a + 1, Len(t) - b)

\* the names and prices of the cards whose name is there and whose price converts
NamesAndPrices ==
    { [text |-> c.name.text, price |-> FloatOf(PriceStr(c)).val] :
        c \in {d \in Cards : d.name.present /\ d.price.present /\ FloatOf(PriceStr(d)).ok} }

\* C8 (amended): every record of scraped_data has the name, trimmed, and the
\* price of a card whose name is there and whose price text converts to a
\* number; the name may be empty and the price negative.
C8_RecordsFromParsedNameAndPrice ==
    \A i \in 1..Len(scraped_data) :
        \E np \in NamesAndPrices :
            /\ IsTrimOf(scraped_data[i].name, np.text)
            /\ scraped_data[i].price = np.price
\* a record with an empty name and one with a negative price are collected
C8_EmptyNameAndNegativePriceKept ==
    /\ \E i \in 1..Len(scraped_data) : scraped_data[i].name = <<>>
    /\ \E i \in 1..Len(scraped_data) : scraped_data[i].price < 0

\* C9 as stated: scraped_data is empty when a call starts, and when a call
\* has returned it holds exactly the records parsed during that call.
C9_ResultSetOfOneCall ==
    /\ (pc = "loop" /\ requests = <<>>) => scraped_data = <<>>
    /\ pc = "done" => scraped_data = parsed

\* C9 (amended): scraped_data belongs to the scraper object.  It is empty
\* before the first call, every step leaves it alone or appends to it, and
\* it always is what it was when the running call began followed by the
\* records the call built on the pages it has finished parsing, in page and
\* card order (the records of the page being parsed are in products).
ScrapedDataAccounted ==
    /\ pc = "idle" => scraped_data = <<>>
    /\ pc \in {"loop", "done"} => scraped_data = atStart \o parsed
    /\ pc \in {"cards", "details", "append", "raised"}
          => scraped_data \o products = atStart \o parsed
C9_ResultSetAccumulates ==
    /\ []ScrapedDataAccounted
    /\ [][ /\ Len(scraped_data') >= Len(scraped_data)
           /\ SubSeq(scraped_data', 1, Len(scraped_data)) = scraped_data ]_vars
\* a second call has added records to those of the first
C9_SecondCallAppended ==
    /\ callsLeft = 0 /\ pc = "done"
    /\ atStart # <<>> /\ Len(scraped_data) > Len(atStart)

\* C10: a fetched listing page with cards of which none became a record ends
\* the call like a page without cards: the call returns with scraped_data and
\* the requests as they are, and a returned call fetches nothing.
C10_PageWithoutRecordsStops ==
    /\ [][ (pc = "cards" /\ idx > Len(product_cards) /\ product_cards # <<>>
              /\ products = <<>>)
            => (pc' = "done" /\ UNCHANGED <<scraped_data, requests, page>>) ]_vars
    /\ [](pc = "done" => ~ENABLED (FetchListingFail \/ FetchListingOk \/ GetProductDetails))
\* the call ended below the ceiling on a page whose only card was skipped
C10_StoppedOnSkippedCards ==
    /\ pc = "done" /\ page < max_pages /\ lastCards >= 1
    /\ requests # <<>> /\ IsListingUrl(Last(requests)) /\ Last(responses)

====
